---- MODULE Spec2Model ----
(***************************************************************************)
(* Model of dirtviz_slack_bot/cli.py: the BackendClient wrapper around the *)
(* Dirtviz HTTP API and the report builder post_cell_data, which resolves  *)
(* each cell id, fetches its power and teros series, formats one block per *)
(* resolved cell and posts the accumulated message to one Slack channel.   *)
(*                                                                         *)
(* post_cell_data is modelled one outbound call per step: the directory    *)
(* lookup of the current id, the power fetch, the teros fetch (with the    *)
(* extraction and the append that follow it) and the final post.  Every    *)
(* response is drawn when its request is issued, so the directory served   *)
(* to one lookup need not be the one served to the next.                   *)
(***************************************************************************)
EXTENDS Integers, Sequences, FiniteSets

(* ---------------- bounds ---------------- *)
MaxCells == 2        \* longest list of cell ids given to post_cell_data
MaxDir == 2          \* longest cell directory served by the backend
MaxRecords == 2      \* longest series served for one window

(* ---------------- program constants ---------------- *)
CLIENT_ID == "#soil-power-students"
NO_DATA == [kind |-> "str", num |-> 0]          \* the literal 'No Data'
\* the leading line; the time of the check is left symbolic
Header == "Checking data at <end> UTC"

(* ---------------- input domains ---------------- *)
CellIds == {1, 2}
\* two entries share id 1, so that directory order decides a lookup
DirRecords == { [id |-> 1, name |-> "A"], [id |-> 1, name |-> "B"], [id |-> 2, name |-> "A"] }

Int64(n) == [kind |-> "int", num |-> n]
Float64(n) == [kind |-> "float", num |-> n]

\* The k-th record of a window: values differ from record to record and do
\* not grow with k; v is a JSON integer in odd records, a float in even ones.
PowerRecord(k) ==
    [timestamp |-> k,
     v |-> IF k % 2 = 0 THEN Float64(20 - k) ELSE Int64(20 - k),
     i |-> Int64(k)]
TerosRecord(k) ==
    [timestamp |-> k, vwc |-> Float64(30 - k), temp |-> Float64(k), ec |-> Float64(40 + k)]

SeqsUpTo(S, n) == UNION { [1..k -> S] : k \in 0..n }

Directories == SeqsUpTo(DirRecords, MaxDir)
CellLists == SeqsUpTo(CellIds, MaxCells)

\* A series body is either a JSON array of records or a JSON object of
\* columns; keys are the object's keys (an array carries none of its own).
PowerPayloads ==
    { [orient |-> o, keys |-> IF o = "columns" THEN {"timestamp", "v", "i"} ELSE {},
       rows |-> [k \in 1..n |-> PowerRecord(k)]] :
        o \in {"records", "columns"}, n \in 0..MaxRecords }
TerosPayloads ==
    { [orient |-> o, keys |-> IF o = "columns" THEN {"timestamp", "vwc", "temp", "ec"} ELSE {},
       rows |-> [k \in 1..n |-> TerosRecord(k)]] :
        o \in {"records", "columns"}, n \in 0..MaxRecords }

\* What requests.get can come back with: no response at all, or a status
\* code and a body.
NoBody == <<>>
Responses(bodies) ==
    { [conn |-> FALSE, status |-> 0, body |-> NoBody] }
    \cup { [conn |-> TRUE, status |-> s, body |-> NoBody] : s \in {404, 500} }
    \cup { [conn |-> TRUE, status |-> 200, body |-> b] : b \in bodies }
NoResponse == [conn |-> FALSE, status |-> -1, body |-> NoBody]

(* ---------------- Cell ---------------- *)
None == [id |-> 0, name |-> "None"]
Cell(c) == [id |-> c.id, name |-> c.name]

(* ---------------- BackendClient ---------------- *)
\* a client that does not look at the status
raise_for_status_never(status) == "none"
raise_for_status(status) == IF status >= 400 THEN "HTTPError" ELSE "none"

\* get: requests.get, raise_for_status, response.json()
get(response) ==
    IF ~response.conn
    THEN [raised |-> "ConnectionError", json |-> response.body]
    ELSE [raised |-> raise_for_status(response.status), json |-> response.body]

VARIABLES
    cells,       \* post_cell_data's argument
    idx,         \* position of the for loop in cells
    cid,         \* loop variable
    cell,        \* result of the latest cell_from_id
    power_df,    \* result of the latest power_data
    msg,         \* [header, blocks]
    warnings,    \* ids logged as not found
    posted,      \* chat_postMessage calls
    log,         \* outbound calls in issue order
    resolved,    \* cells the lookups returned, in lookup order (history)
    response,    \* what the latest requests.get came back with
    error,       \* exception that left post_cell_data, or "none"
    pc           \* the call post_cell_data is at

vars == <<cells, idx, cid, cell, power_df, msg, warnings, posted, log, resolved,
          response, error, pc>>

\* a client that keeps the cell it resolved last instead of the fetched list
cells_memoised(cell_data_list) ==
    IF cell.id # 0 THEN <<cell>>
    ELSE [k \in 1..Len(cell_data_list) |-> [id |-> cell_data_list[k].id, name |-> cell_data_list[k].name]]
\* cells: one Cell per record of the directory body, in order
BackendClient_cells(cell_data_list) ==
    [k \in 1..Len(cell_data_list) |-> Cell(cell_data_list[k])]

RECURSIVE scan_id_last(_, _, _)
scan_id_last(cell_list, cell_id, k) ==
    IF k < 1 THEN None
    ELSE IF cell_list[k].id = cell_id THEN cell_list[k]
    ELSE scan_id_last(cell_list, cell_id, k - 1)

RECURSIVE scan_id(_, _, _)
scan_id(cell_list, cell_id, k) ==
    IF k > Len(cell_list) THEN None
    ELSE IF cell_list[k].id = cell_id THEN cell_list[k]
    ELSE scan_id(cell_list, cell_id, k + 1)

cell_from_id_last(cell_list, cell_id) == scan_id_last(cell_list, cell_id, Len(cell_list))
cell_from_id(cell_list, cell_id) == scan_id(cell_list, cell_id, 1)

(* ---------------- pandas ---------------- *)
\* pd.DataFrame(data): an array of records takes its columns from the
\* records, so an empty array has no columns; an object of columns keeps its
\* keys even when the columns are empty.
DataFrame(data) ==
    [columns |-> IF data.orient = "records"
                 THEN UNION { DOMAIN data.rows[k] : k \in 1..Len(data.rows) }
                 ELSE data.keys,
     rows |-> data.rows]

empty(df) == df.columns = {} \/ Len(df.rows) = 0

\* df[col]: a numeric column holding any float is float64 as a whole
dtype(df, col) ==
    IF \E k \in 1..Len(df.rows) : df.rows[k][col].kind = "float" THEN "float" ELSE "int"

iloc_first(df, col) == [kind |-> dtype(df, col), num |-> df.rows[1][col].num]
\* df[col].iloc[-1]
iloc_last(df, col) == [kind |-> dtype(df, col), num |-> df.rows[Len(df.rows)][col].num]

\* data_df["timestamp"] = pd.to_datetime(data_df["timestamp"])
series_keyerror_never(data) == [raised |-> "none", df |-> DataFrame(data)]
series_data(data) ==
    LET data_df == DataFrame(data) IN
    [raised |-> IF "timestamp" \in data_df.columns THEN "none" ELSE "KeyError",
     df |-> data_df]

power_data(data) == series_data(data)
teros_data(data) == series_data(data)

(* ---------------- post_cell_data ---------------- *)
\* iloc[0] in place of iloc[-1]
latest_first(df, col) == IF ~empty(df) THEN iloc_first(df, col) ELSE NO_DATA
latest(df, col) == IF ~empty(df) THEN iloc_last(df, col) ELSE NO_DATA

Block(c, p_df, t_df) ==
    [name |-> c.name,
     v |-> latest(p_df, "v"),
     i |-> latest(p_df, "i"),
     vwc |-> latest(t_df, "vwc"),
     temp |-> latest(t_df, "temp"),
     ec |-> latest(t_df, "ec")]

\* msg = block + msg
append_front(blocks, b) == <<b>> \o blocks
append_block(blocks, b) == Append(blocks, b)

NoFrame == [columns |-> {}, rows |-> <<>>]

Req(ep, id) == [ep |-> ep, id |-> id, iter |-> idx]

\* a loop that stops one id short
loop_done_early(i, n) == i >= n
loop_done(i, n) == i > n

\* the for loop: the next id's lookup, or the post once the list is exhausted
after_iteration(i, n) == IF loop_done(i, n) THEN "chat_postMessage" ELSE "cell_from_id"

\* entry: what is posted before post_cell_data is called; the call of
\* post_hello_world is commented out
entry_posts_hello == << [channel |-> CLIENT_ID, text |-> [header |-> "Hello, World!", blocks |-> <<>>]] >>
entry_posts == <<>>

Init ==
    /\ cells \in CellLists
    /\ idx = 1
    /\ cid = 0
    /\ cell = None
    /\ power_df = NoFrame
    /\ msg = [header |-> Header, blocks |-> <<>>]
    /\ warnings = <<>>
    /\ posted = entry_posts
    /\ log = <<>>
    /\ resolved = <<>>
    /\ response = NoResponse
    /\ error = "none"
    /\ pc = after_iteration(1, Len(cells))

\* break instead of continue
not_found_break(i, n) == n + 1
\* continue
not_found_next(i, n) == i + 1

\* for cid in cells: cell = backend.cell_from_id(cid); if None: warn, continue
LookupCell ==
    /\ error = "none"
    /\ pc = "cell_from_id"
    /\ \E rsp \in Responses(Directories) :
        LET r == get(rsp) IN
        /\ response' = rsp
        /\ cid' = cells[idx]
        /\ log' = Append(log, Req("/cell/id", 0))
        /\ error' = r.raised
        /\ IF r.raised # "none"
           THEN UNCHANGED <<idx, cell, warnings, resolved, pc>>
           ELSE LET c == cell_from_id(BackendClient_cells(r.json), cells[idx])
                IN  /\ cell' = c
                    /\ IF c = None
                       THEN /\ warnings' = Append(warnings, cells[idx])
                            /\ idx' = not_found_next(idx, Len(cells))
                            /\ pc' = after_iteration(idx', Len(cells))
                            /\ UNCHANGED resolved
                       ELSE /\ resolved' = Append(resolved, c)
                            /\ pc' = "power_data"
                            /\ UNCHANGED <<idx, warnings>>
    /\ UNCHANGED <<cells, power_df, msg, posted>>

\* power_df = backend.power_data(cell, start, end)
FetchPower ==
    /\ error = "none"
    /\ pc = "power_data"
    /\ \E rsp \in Responses(PowerPayloads) :
        LET r == get(rsp) IN
        /\ response' = rsp
        /\ log' = Append(log, Req("/power", cell.id))
        /\ IF r.raised # "none"
           THEN /\ error' = r.raised
                /\ UNCHANGED <<power_df, pc>>
           ELSE LET p == power_data(r.json) IN
                /\ error' = p.raised
                /\ IF p.raised # "none"
                   THEN UNCHANGED <<power_df, pc>>
                   ELSE power_df' = p.df /\ pc' = "teros_data"
    /\ UNCHANGED <<cells, idx, cid, cell, msg, warnings, posted, resolved>>

\* teros_df = backend.teros_data(cell, start, end), then the extraction of
\* the latest values and the append of the cell's block
FetchTeros ==
    /\ error = "none"
    /\ pc = "teros_data"
    /\ \E rsp \in Responses(TerosPayloads) :
        LET r == get(rsp) IN
        /\ response' = rsp
        /\ log' = Append(log, Req("/teros", cell.id))
        /\ IF r.raised # "none"
           THEN /\ error' = r.raised
                /\ UNCHANGED <<msg, idx, pc>>
           ELSE LET t == teros_data(r.json) IN
                /\ error' = t.raised
                /\ IF t.raised # "none"
                   THEN UNCHANGED <<msg, idx, pc>>
                   ELSE /\ msg' = [msg EXCEPT !.blocks =
                                     append_block(@, Block(cell, power_df, t.df))]
                        /\ idx' = idx + 1
                        /\ pc' = after_iteration(idx', Len(cells))
    /\ UNCHANGED <<cells, cid, cell, power_df, warnings, posted, resolved>>

\* client.chat_postMessage(channel=CLIENT_ID, text=msg)
PostMessage ==
    /\ error = "none"
    /\ pc = "chat_postMessage"
    /\ posted' = Append(posted, [channel |-> CLIENT_ID, text |-> msg])
    /\ log' = Append(log, Req("chat.postMessage", 0))
    /\ \E ok \in BOOLEAN :
        IF ok THEN pc' = "return" /\ error' = "none"
        ELSE pc' = pc /\ error' = "SlackApiError"
    /\ UNCHANGED <<cells, idx, cid, cell, power_df, msg, warnings, resolved, response>>

Next == LookupCell \/ FetchPower \/ FetchTeros \/ PostMessage

Spec == Init /\ [][Next]_vars

(* ======================= properties ======================= *)
Last(s) == s[Len(s)]
Gets == {"/cell/id", "/power", "/teros"}
FetchErrors == {"HTTPError", "ConnectionError"}
Terminated == pc = "return" \/ error # "none"
Count(ep) == Len(SelectSeq(log, LAMBDA e : e.ep = ep))

\* the latest call was a GET of ep and it was answered with a 200
Answered(ep) == log # <<>> /\ Last(log).ep = ep /\ response.conn /\ response.status = 200
\* the latest call was a GET and it failed
GetFailed == log # <<>> /\ Last(log).ep \in Gets /\ (~response.conn \/ response.status >= 400)
\* positions of the fetched directory that carry the id looked up
Matches == { k \in 1..Len(response.body) : response.body[k].id = cid }
FirstMatch == CHOOSE k \in Matches : \A j \in Matches : k <= j
\* the block of the cell just processed has been appended
Appended == Answered("/teros") /\ error = "none"

\* C1 (as stated): every finished run has posted exactly one message, to the
\* fixed channel, whatever the backend answered.
C1_ExactlyOnePostPerRun ==
    Terminated => Len(posted) = 1 /\ posted[1].channel = "#soil-power-students"

\* C1 (amended): a run never issues more than one chat_postMessage call, every
\* call goes to the fixed channel, and a finished run has issued exactly one
\* iff no exception left the loop over the cell ids (a failed fetch or the
\* KeyError of an empty record array leaves it with none).
C1_OnePostUnlessLoopRaised ==
    /\ Len(posted) <= 1
    /\ \A k \in 1..Len(posted) : posted[k].channel = "#soil-power-students"
    /\ Terminated => (Len(posted) = 1 <=> error \notin FetchErrors \cup {"KeyError"})
    /\ ~Terminated => posted = <<>>

C1_Witness ==
    /\ pc = "return" /\ Len(posted) = 1 /\ Len(cells) = 2
    /\ Len(posted[1].text.blocks) = 1 /\ Len(warnings) = 1

\* C2: once a GET of the run has failed, the run has ended with that request
\* error, the failed GET is the last call ever issued and nothing is posted,
\* whatever blocks had been accumulated.
C2_FetchFailureAbortsWithoutPost ==
    /\ GetFailed =>
         /\ error = (IF response.conn THEN "HTTPError" ELSE "ConnectionError")
         /\ posted = <<>>
         /\ pc = (CASE Last(log).ep = "/cell/id" -> "cell_from_id"
                    [] Last(log).ep = "/power" -> "power_data"
                    [] Last(log).ep = "/teros" -> "teros_data")
    /\ error \in FetchErrors => GetFailed /\ Count("chat.postMessage") = 0

C2_Witness ==
    /\ GetFailed /\ Last(log).ep = "/teros" /\ Last(log).iter = 2
    /\ Len(msg.blocks) = 1 /\ Len(cells) = 2 /\ error = "HTTPError" /\ posted = <<>>

\* lookups of the log that were followed by no power fetch
Skipped ==
    { k \in 1..Len(log) :
        /\ log[k].ep = "/cell/id"
        /\ IF k < Len(log) THEN log[k+1].ep \in {"/cell/id", "chat.postMessage"}
           ELSE Answered("/cell/id") /\ Matches = {} }

\* C3: an id the fetched directory does not hold is skipped: its warning is
\* recorded, no block is appended, no power or teros request is issued for
\* it, no exception is raised, and the loop moves to the next id; a posted
\* run has looked up every id.
C3_UnresolvedIdIsSkipped ==
    /\ (Answered("/cell/id") /\ Matches = {}) =>
         /\ error = "none"
         /\ warnings # <<>> /\ Last(warnings) = cid
         /\ idx = Last(log).iter + 1
         /\ pc = (IF idx <= Len(cells) THEN "cell_from_id" ELSE "chat_postMessage")
    /\ Len(msg.blocks) + Len(warnings) = idx - 1
    /\ Cardinality(Skipped) = Len(warnings)
    /\ posted # <<>> => Count("/cell/id") = Len(cells) /\ idx = Len(cells) + 1

C3_Witness ==
    /\ Len(cells) = 2 /\ warnings = <<cells[1]>>
    /\ Len(msg.blocks) = 1 /\ Len(posted) = 1 /\ pc = "return"

\* C4: between iterations, the message holds one block per id that resolved,
\* in the order of the ids in the input list, every other processed id has a
\* warning, and the posted text is that message.
C4_OneBlockPerResolvedIdInOrder ==
    LET P == SelectSeq(log, LAMBDA e : e.ep = "/power") IN
    /\ Len(resolved) = Len(P) + (IF Answered("/cell/id") /\ Matches # {} THEN 1 ELSE 0)
    /\ (Answered("/cell/id") /\ Matches # {}) => Last(resolved).id = cells[idx]
    /\ \A j \in 1..Len(P) : P[j].id = resolved[j].id /\ P[j].id = cells[P[j].iter]
    /\ \A j, k \in 1..Len(P) : j < k => P[j].iter < P[k].iter
    /\ Len(msg.blocks) <= Len(resolved)
    /\ \A j \in 1..Len(msg.blocks) : msg.blocks[j].name = resolved[j].name
    /\ (pc \in {"cell_from_id", "chat_postMessage", "return"} /\ error \notin FetchErrors) =>
         /\ Len(msg.blocks) = Len(resolved)
         /\ Len(resolved) + Len(warnings) = idx - 1
    /\ \A k \in 1..Len(posted) : posted[k].text = msg /\ Len(msg.blocks) + Len(warnings) = Len(cells)

C4_Witness ==
    /\ pc = "return" /\ Len(posted) = 1
    /\ Len(posted[1].text.blocks) = 2
    /\ posted[1].text.blocks[1].name = "B" /\ posted[1].text.blocks[2].name = "A"
    /\ cells = <<1, 2>>

\* C5 (as stated): a 200 answer of /power or /teros with zero records is
\* never an error of power_data or teros_data.
C5_EmptyAnswerIsNotAnError ==
    \A ep \in {"/power", "/teros"} :
        (Answered(ep) /\ Len(response.body.rows) = 0) => error = "none"

\* C6 (as stated): a resolved cell whose power (teros) answer has zero
\* records gets a block whose v and i (vwc, temp and ec) are 'No Data',
\* whatever the other series holds, and the run goes on to post.
C6_EmptySeriesReportsNoData ==
    /\ error # "KeyError"
    /\ Appended =>
         /\ Len(power_df.rows) = 0 =>
              Last(msg.blocks).v = NO_DATA /\ Last(msg.blocks).i = NO_DATA
         /\ Len(response.body.rows) = 0 =>
              /\ Last(msg.blocks).vwc = NO_DATA
              /\ Last(msg.blocks).temp = NO_DATA
              /\ Last(msg.blocks).ec = NO_DATA

\* C7: the block of a resolved cell reports, for a series with one or more
\* records, the numbers of the last record the API returned for it.
C7_BlockReportsLastRecord ==
    Appended =>
        LET b == Last(msg.blocks)
            p == power_df.rows
            t == response.body.rows
        IN  /\ Len(p) >= 1 =>
                 /\ b.v.num = p[Len(p)].v.num /\ b.v.kind # "str"
                 /\ b.i.num = p[Len(p)].i.num /\ b.i.kind # "str"
            /\ Len(t) >= 1 =>
                 /\ b.vwc.num = t[Len(t)].vwc.num /\ b.vwc.kind # "str"
                 /\ b.temp.num = t[Len(t)].temp.num /\ b.temp.kind # "str"
                 /\ b.ec.num = t[Len(t)].ec.num /\ b.ec.kind # "str"

C7_Witness ==
    /\ Appended /\ Len(power_df.rows) = 2 /\ Len(response.body.rows) = 2
    /\ Last(msg.blocks).v.num = 18 /\ Last(msg.blocks).vwc.num = 28

\* C8: a lookup answered with a directory returns the first entry in
\* directory order that carries the id, and None, without raising, when no
\* entry carries it.
C8_FirstMatchOrNone ==
    Answered("/cell/id") =>
        /\ error = "none"
        /\ IF Matches = {} THEN cell = None
           ELSE /\ cell.id = cid
                /\ cell.name = response.body[FirstMatch].name

C8_Witness ==
    /\ Answered("/cell/id") /\ Cardinality(Matches) = 2
    /\ response.body[1].name # response.body[2].name
    /\ cell.name = response.body[1].name

\* C9: every lookup issues its own directory fetch, so the run has issued
\* one per id looked up, and each id is resolved against the directory
\* served to its own lookup, not against an earlier one.
C9_EveryLookupFetchesTheDirectory ==
    /\ Count("/cell/id") =
          (idx - 1) + (IF pc \in {"power_data", "teros_data"} \/
                          (pc = "cell_from_id" /\ error # "none") THEN 1 ELSE 0)
    /\ Answered("/cell/id") =>
          /\ Last(log).iter = Count("/cell/id")
          /\ cell = (IF Matches = {} THEN None ELSE Cell(response.body[FirstMatch]))

C9_Witness ==
    /\ Len(cells) = 2 /\ cells[1] = cells[2]
    /\ warnings = <<cells[1]>>
    /\ Answered("/cell/id") /\ Last(log).iter = 2 /\ cell.id = cells[2]
    /\ Count("/cell/id") = 2

\* C10: the calls of a run are issued id by id in input order: for each id
\* the directory fetch, then for a resolved id the power fetch and then the
\* teros fetch of that cell; the post comes last, after every id's lookup.
C10_SequentialInInputOrder ==
    /\ \A k \in 1..Len(log) :
         LET e == log[k] IN
         CASE e.ep = "/cell/id" ->
                /\ e.iter = Len(SelectSeq(SubSeq(log, 1, k), LAMBDA x : x.ep = "/cell/id"))
                /\ k > 1 => log[k-1].ep \in {"/cell/id", "/teros"} /\ log[k-1].iter = e.iter - 1
           [] e.ep = "/power" ->
                /\ k > 1 /\ log[k-1].ep = "/cell/id" /\ log[k-1].iter = e.iter
                /\ e.id = cells[e.iter]
           [] e.ep = "/teros" ->
                /\ k > 1 /\ log[k-1].ep = "/power" /\ log[k-1].iter = e.iter
                /\ e.id = log[k-1].id
           [] e.ep = "chat.postMessage" ->
                /\ k = Len(log)
                /\ Count("/cell/id") = Len(cells)
                /\ k > 1 => log[k-1].ep \in {"/cell/id", "/teros"}
    /\ Len(posted) = Count("chat.postMessage")

C10_Witness ==
    /\ pc = "return" /\ Len(log) = 7
    /\ [k \in 1..7 |-> log[k].ep] =
         <<"/cell/id", "/power", "/teros", "/cell/id", "/power", "/teros", "chat.postMessage">>
    /\ log[2].id # log[5].id

====
